---- MODULE Spec2Model ----
(***************************************************************************)
(* Talkify: the message-handling pipeline of src/app.py with the per-user  *)
(* usage quota of check_usage_limits and the store of src/database.py.     *)
(*                                                                         *)
(* Every update the bot dispatches is run by a task (an asyncio coroutine).*)
(* A task is suspended only at an await.  The position (pc) of a task names *)
(* the await it is suspended at; an action is the completion of that await *)
(* followed by the code that runs up to the next await, and actions of     *)
(* different tasks interleave freely: no per-user serialization exists in  *)
(* the code.                                                               *)
(*                                                                         *)
(* Units: time is in hours.  A duration is a Python float, computed as the *)
(* code computes it, with the rounding of every operation (see Float): 10  *)
(* words are 3.3333333333333335 s, and 10 - 3.3333333333333335 is          *)
(* 6.666666666666666, one rounding below the 6.666666666666667 of 20 words.*)
(***************************************************************************)
EXTENDS Integers, Sequences, FiniteSets

(* ---------------- program constants ---------------- *)

\* FREE_TIER_DAILY_LIMIT = int(os.environ.get("FREE_TIER_DAILY_LIMIT", 10))
FREE_TIER_DAILY_LIMIT == 10

\* timedelta(hours=24) in get_total_voice_duration
WINDOW_HOURS == 24

\* response_duration = len(response_text.split()) / 3
WORDS_PER_SECOND == 3

\* "Sorry, there was an error processing your audio:" has 8 words
ERROR_PREFIX_WORDS == 8

\* the input text stored for a Premium Audio exchange
SENTINEL == "[Premium Audio Mode - Direct Voice Processing]"

\* the keys of AVAILABLE_LANGUAGES
AVAILABLE_LANGUAGES ==
    {"English", "Spanish", "French", "German", "Italian", "Portuguese", "Russian"}

(* ---------------- bounds of the model ---------------- *)

\* the clock moves in jumps of TickHours up to MaxTime
TickHours == 24
MaxTime == 48

\* size of the messages collection: a message is received while the exchanges
\* of the executions in flight still fit; against a full collection one
\* execution at a time is followed, up to the append it cannot make
MaxMessages == 2

UserIds == {1, 2}
Tasks == {1, 2}

\* len(response_text.split()) of the replies the generation services return:
\* 9 words are 3 s and 30 words are the daily limit; 10 and 20 words are not
\* whole seconds, and together they are the daily limit
ReplyWords == {9, 10, 20, 30}

\* number of words of str(e) in the error text of process_audio_with_gpt4o:
\* the error text has 14 words, 4.666... s
ExceptionWords == {6}

\* message.from_user.username: the handle the user has when the update is sent
Usernames == {"ann", "anna"}

\* updates the bot receives: a button label is a text message
Updates == {"text", "button", "voice", "/premium_audio"}

\* call.data of a callback query, as the sequence of its pieces: the prefix
\* "lang_" any number of times and one other piece
CallbackData ==
    {<<"lang_", "Spanish">>, <<"lang_", "Klingon">>, <<"lang_", "lang_", "Russian">>,
     <<"menu">>}

\* the updates that read or change the settings of a user
SettingsUpdates == {"/start", "/help", "/premium_audio", "/language", "callback"}

\* values of the environment variables ENVIRONMENT and WEBHOOK_URL
Environments == {"production", "None"}
WebhookUrls == {"None", "", "https://bot"}

VARIABLES
    users,      \* db.users: sequence of user documents, in insertion order
    messages,   \* db.messages: sequence of exchange documents (append-only)
    now,        \* datetime.now(timezone.utc), in hours
    task,       \* per task: the update it handles, its position and its locals
    main        \* the __main__ block: its environment, position and locals

vars == <<users, messages, now, task, main>>

(* ---------------- Python floats ---------------- *)

\* A float of the program (an IEEE 754 double) is held exactly, as two
\* integers: Float(n, e) is the number  n / 3 + e / (3 * 2^54)  of seconds,
\* n thirds of a second and e units of 1 / (3 * 2^54) s.  Every value the
\* program computes here is a quotient of a word count by 3, or a sum or a
\* difference of such values and of integers; the doubles of a quarter of a
\* second and more are multiples of 2^-54, and so are their differences, so n
\* and e are integers, and e stays small: it is the accumulated rounding
\* error.  The operations are those of the doubles for values of any size
\* the integers of the checker hold (under 2^26 s).
Float(n, e) == [n |-> n, e |-> e]

\* float(i) for an integer i
float(i) == Float(WORDS_PER_SECOND * i, 0)

\* the comparisons of two floats
float_lt(x, y) == x.n < y.n \/ (x.n = y.n /\ x.e < y.e)
float_le(x, y) == ~float_lt(y, x)

float_neg(x) == Float(-x.n, -x.e)

\* x is p thirds of a second or more
at_least(x, p) == x.n > p \/ (x.n = p /\ x.e >= 0)

\* the binary exponent of a number x >= 2^(j-2), counted from 2^-2
RECURSIVE exponent_from(_, _)
exponent_from(x, j) ==
    IF at_least(x, 3 * (2 ^ (j - 1))) THEN exponent_from(x, j + 1) ELSE j

\* the binary exponent of a number x >= 0, counted from 2^-2: the doubles
\* between 2^(j-2) and 2^(j-1) are the multiples of 2^j * 2^-54, whatever
\* the size of x
ulp_exponent(x) ==
    IF at_least(x, 3) THEN exponent_from(x, 2)
    ELSE IF x.n >= 2 THEN 1
    ELSE 0

\* 2^54 modulo 3 * 2^j
two_54_mod(j) == (2 ^ j) * (IF (54 - j) % 2 = 0 THEN 1 ELSE 2)

\* 3 * 2^54 * x modulo 3 * 2^j, for x >= 0
residue(x, j) ==
    LET M == 3 * (2 ^ j)
    IN  ((((x.n % 3) * two_54_mod(j)) % M) + (x.e % M)) % M

\* the double nearest to a number x >= 0, ties to the even double
round_half_even(x) ==
    LET j == ulp_exponent(x)
        M == 3 * (2 ^ j)
        r == residue(x, j)
        down == Float(x.n, x.e - r)
        up == Float(x.n, x.e + (M - r))
    IN  IF r = 0 THEN x
        ELSE IF 2 * r < M THEN down
        ELSE IF 2 * r > M THEN up
        ELSE IF residue(x, j + 1) = r THEN down ELSE up

\* the float the program gets for the exact result x of one operation
round(x) ==
    IF float_lt(x, Float(0, 0)) THEN float_neg(round_half_even(float_neg(x)))
    ELSE round_half_even(x)

\* x + y and x - y on floats
float_add(x, y) == round(Float(x.n + y.n, x.e + y.e))
float_sub(x, y) == round(Float(x.n - y.n, x.e - y.e))

\* len(...) / 3: the quotient of an integer by 3, as a float
float_div_3(i) == round(Float(i, 0))

(* ---------------- the store (src/database.py) ---------------- *)

\* users.find_one({"user_id": uid}): index of the first match, 0 for None
find_one(coll, uid) ==
    IF \E i \in 1..Len(coll) : coll[i].user_id = uid
    THEN CHOOSE i \in 1..Len(coll) :
            /\ coll[i].user_id = uid
            /\ \A j \in 1..(i - 1) : coll[j].user_id # uid
    ELSE 0

\* the document get_or_create_user inserts for an unseen user id
new_user(uid, username, t) ==
    [user_id |-> uid, username |-> username, is_premium |-> FALSE,
     language |-> "English", premium_audio_mode |-> FALSE, created_at |-> t]

\* users.update_one({"user_id": uid}, {"$set": {"is_premium": b}})
update_is_premium(coll, uid, b) ==
    LET i == find_one(coll, uid)
    IN  IF i = 0 THEN coll ELSE [coll EXCEPT ![i].is_premium = b]

\* users.update_one({"user_id": uid}, {"$set": {"premium_audio_mode": b}})
update_premium_audio_mode(coll, uid, b) ==
    LET i == find_one(coll, uid)
    IN  IF i = 0 THEN coll ELSE [coll EXCEPT ![i].premium_audio_mode = b]

\* users.update_one({"user_id": uid}, {"$set": {"language": language}})
update_language(coll, uid, language) ==
    LET i == find_one(coll, uid)
    IN  IF i = 0 THEN coll ELSE [coll EXCEPT ![i].language = language]

\* in_cursor without the user_id key of the filter
in_cursor_any_user(m, uid, t) ==
    m.created_at >= t - WINDOW_HOURS

\* in_cursor without the created_at key of the filter
in_cursor_no_window(m, uid, t) ==
    m.user_id = uid

\* the filter of get_total_voice_duration:
\* {"user_id": user_id, "created_at": {"$gte": now - 24h}}
in_cursor(m, uid, t) ==
    /\ m.user_id = uid
    /\ m.created_at >= t - WINDOW_HOURS

\* the loop of get_total_voice_duration (lines 52-53): total_duration += the
\* duration of each exchange of the cursor, in the order of the collection
RECURSIVE loop_durations(_, _, _, _)
loop_durations(total_duration, msgs, uid, t) ==
    IF msgs = << >> THEN total_duration
    ELSE loop_durations(IF in_cursor(Head(msgs), uid, t)
                        THEN float_add(total_duration, Head(msgs).response_duration)
                        ELSE total_duration,
                        Tail(msgs), uid, t)

\* lines 51-54: total_duration = 0.0, the loop, return total_duration
sum_durations(msgs, uid, t) == loop_durations(float(0), msgs, uid, t)

\* get_total_voice_duration over the exchanges of every user
get_total_voice_duration_all_users(uid, t) ==
    sum_durations([i \in 1..Len(messages) |-> [messages[i] EXCEPT !.user_id = uid]],
                  uid, t)

\* get_total_voice_duration: the cursor over db.messages as it is when the
\* query runs, with the cutoff of the clock read at t when the call was made
get_total_voice_duration(uid, t) == sum_durations(messages, uid, t)

(* ---------------- pure parts of src/app.py ---------------- *)

\* the word count taken as the duration
estimate_duration_word_count(words) == float(words)

\* len(response_text.split()) / 3
estimate_duration(words) == float_div_3(words)

\* resolve_mode without the branch of line 468
resolve_mode_no_reject(ctype, premium_audio_mode) ==
    IF premium_audio_mode /\ ctype = "voice" THEN "PremiumAudio"
    ELSE IF ctype = "voice" THEN "StandardVoice"
    ELSE "StandardText"

\* resolve_mode with the branch of line 528 tested before that of line 504
resolve_mode_transcribes(ctype, premium_audio_mode) ==
    IF premium_audio_mode /\ ctype # "voice" THEN "Rejected"
    ELSE IF ctype = "voice" THEN "StandardVoice"
    ELSE "StandardText"

\* the branches of handle_message on (content_type, premium_audio_mode):
\* line 468, line 504, line 528
resolve_mode(ctype, premium_audio_mode) ==
    IF premium_audio_mode /\ ctype # "voice" THEN "Rejected"
    ELSE IF premium_audio_mode /\ ctype = "voice" THEN "PremiumAudio"
    ELSE IF ctype = "voice" THEN "StandardVoice"
    ELSE "StandardText"

\* check_usage_limits without the early return of lines 325-326
check_usage_limits_no_premium(is_premium, total_duration) ==
    LET remaining_seconds == float_sub(float(FREE_TIER_DAILY_LIMIT), total_duration)
    IN  [has_access |-> float_lt(float(0), remaining_seconds), inf |-> FALSE,
         remaining_seconds |-> remaining_seconds]

\* check_usage_limits, given the user document it read:
\* (has_access, remaining is inf, remaining_seconds); line 329 subtracts the
\* float total from the integer limit, line 331 compares with 0
check_usage_limits(is_premium, total_duration) ==
    IF is_premium
    THEN [has_access |-> TRUE, inf |-> TRUE, remaining_seconds |-> float(0)]
    ELSE LET remaining_seconds == float_sub(float(FREE_TIER_DAILY_LIMIT), total_duration)
         IN  [has_access |-> float_lt(float(0), remaining_seconds), inf |-> FALSE,
              remaining_seconds |-> remaining_seconds]

\* handle_message without the check of line 555
would_exceed_never(snapshot_premium, inf, remaining_seconds, response_duration) ==
    FALSE

\* line 555 with <= for <
would_exceed_inclusive(snapshot_premium, inf, remaining_seconds, response_duration) ==
    /\ ~snapshot_premium
    /\ ~inf
    /\ float_le(remaining_seconds, response_duration)

\* line 555 comparing the reply with the daily limit, not with what remains
would_exceed_limit(snapshot_premium, inf, remaining_seconds, response_duration) ==
    /\ ~snapshot_premium
    /\ ~inf
    /\ float_lt(float(FREE_TIER_DAILY_LIMIT), response_duration)

\* line 555: not user.get("is_premium") and remaining_seconds < response_duration
would_exceed(snapshot_premium, inf, remaining_seconds, response_duration) ==
    /\ ~snapshot_premium
    /\ ~inf
    /\ float_lt(remaining_seconds, response_duration)

\* call.data.startswith('lang_')
startswith_lang(data) == Len(data) > 0 /\ data[1] = "lang_"

\* call.data.replace('lang_', ''): every occurrence of the prefix is removed;
\* what is left is the one other piece, or the empty string
selected_language(data) ==
    LET rest == SelectSeq(data, LAMBDA piece : piece # "lang_")
    IN  IF rest = << >> THEN "" ELSE rest[1]

(* ---------------- dispatch of a message to its handler ---------------- *)

\* The labels of the interface buttons (lines 335-356 and 448-451); the
\* Russian labels are written in Latin letters.
LABELS_TEXT_IN_ENGLISH == <<"Text the same in English", "Napisat to zhe samoe na Angliyskom">>
LABELS_HINTS == <<"I'm stuck! Hints", "Ya zastryal! Podskazki">>
LABELS_FINISH == <<"Finish & get feedback", "Zakonchit i poluchit obratnuyu svyaz">>
LABELS_WORD_COUNT == <<"How many words did I say", "Skolko ya nagovoril">>

ButtonLabels ==
    {l[i] : l \in {LABELS_TEXT_IN_ENGLISH, LABELS_HINTS, LABELS_FINISH, LABELS_WORD_COUNT},
            i \in {1, 2}}

\* message.text: None, or a string, known by the button labels it contains
NoText == [is_none |-> TRUE, has |-> {}]
Text(labels) == [is_none |-> FALSE, has |-> labels]

\* Python's `label in message.text`: TypeError when message.text is None
py_in(label, text) ==
    IF text.is_none THEN "TypeError"
    ELSE IF label \in text.has THEN "True" ELSE "False"

\* Python's `a or b` on the outcomes of two tests, b evaluated when a is false
py_or(a, b) == IF a = "False" THEN b ELSE a

\* line 335: message.text and A in message.text or B in message.text, which
\* Python reads as (message.text and A in message.text) or (B in message.text)
filter_text_in_english(text) ==
    py_or(IF text.is_none THEN "False" ELSE py_in(LABELS_TEXT_IN_ENGLISH[1], text),
          py_in(LABELS_TEXT_IN_ENGLISH[2], text))

\* lines 342, 349, 356: message.text and (A in message.text or B in message.text)
filter_labels(labels, text) ==
    IF text.is_none THEN "False"
    ELSE py_or(py_in(labels[1], text), py_in(labels[2], text))

\* the func of a handler, applied to the text of a message
apply_func(func, text) ==
    CASE func = "text_in_english" -> filter_text_in_english(text)
      [] func = "hints" -> filter_labels(LABELS_HINTS, text)
      [] func = "finish" -> filter_labels(LABELS_FINISH, text)
      [] func = "word_count" -> filter_labels(LABELS_WORD_COUNT, text)
      [] OTHER -> "True"

\* the message handlers in the order of their registration, each with the
\* arguments of its decorator: content_types (the empty set when the decorator
\* names none), commands, func
Handler(name, content_types, commands, func) ==
    [name |-> name, content_types |-> content_types, commands |-> commands, func |-> func]

MessageHandlers ==
    << Handler("handle_start", {}, {"start"}, "none"),
       Handler("handle_help", {}, {"help"}, "none"),
       Handler("handle_premium", {}, {"premium"}, "none"),
       Handler("language_command", {}, {"language"}, "none"),
       Handler("handle_text_in_english", {}, {}, "text_in_english"),
       Handler("handle_hints", {}, {}, "hints"),
       Handler("handle_finish", {}, {}, "finish"),
       Handler("handle_word_count", {}, {}, "word_count"),
       Handler("premium_audio_command", {}, {"premium_audio"}, "none"),
       Handler("handle_message", {"voice", "text"}, {}, "none") >>

ButtonHandlers ==
    {"handle_text_in_english", "handle_hints", "handle_finish", "handle_word_count"}

\* The selection of the handler of a message is made by the bot library
\* (bot.process_new_updates, line 81), whose code is not part of the
\* repository.  It is modelled from the specification: a text message selects
\* its handler by its command or by the button label it carries, and every
\* other text message and every voice message reaches the resolution of the
\* mode, which is in handle_message.

\* the handler of a text message: the first handler, in the order of
\* registration, that is registered for its command or whose func accepts its
\* text; handle_message, registered last, accepts every text
RECURSIVE text_handler(_, _)
text_handler(handlers, msg) ==
    IF handlers = << >> THEN "none"
    ELSE LET h == Head(handlers)
             passed == IF h.commands # {}
                       THEN IF msg.command \in h.commands THEN "True" ELSE "False"
                       ELSE apply_func(h.func, msg.text)
         IN  IF passed = "TypeError" THEN "TypeError"
             ELSE IF passed = "True" THEN h.name
             ELSE text_handler(Tail(handlers), msg)

\* the handler of a message: a message that is not a text goes to the handler
\* registered for its content type, which for a voice message is
\* handle_message
message_handler(msg) ==
    IF msg.content_type = "text" THEN text_handler(MessageHandlers, msg)
    ELSE IF \E i \in 1..Len(MessageHandlers) :
               msg.content_type \in MessageHandlers[i].content_types
    THEN MessageHandlers[CHOOSE i \in 1..Len(MessageHandlers) :
            /\ msg.content_type \in MessageHandlers[i].content_types
            /\ \A j \in 1..(i - 1) :
                  msg.content_type \notin MessageHandlers[j].content_types].name
    ELSE "none"

\* lines 448-451: message.text and any(keyword in message.text for ...)
is_button_command(text) ==
    IF text.is_none THEN "False"
    ELSE IF \E label \in ButtonLabels : py_in(label, text) = "True" THEN "True" ELSE "False"

\* the messages an update of the model stands for
Message(content_type, text, command) ==
    [content_type |-> content_type, text |-> text, command |-> command]

inbound(upd) ==
    CASE upd = "voice" -> {Message("voice", NoText, "none")}
      [] upd = "text" -> {Message("text", Text({}), "none")}
      [] upd = "button" -> {Message("text", Text({label}), "none") : label \in ButtonLabels}
      [] upd = "/start" -> {Message("text", Text({}), "start")}
      [] upd = "/help" -> {Message("text", Text({}), "help")}
      [] upd = "/premium_audio" -> {Message("text", Text({}), "premium_audio")}
      [] upd = "/language" -> {Message("text", Text({}), "language")}
      [] OTHER -> {Message("none", NoText, "none")}

(* ---------------- tasks ---------------- *)

NoUser == [is_premium |-> FALSE, premium_audio_mode |-> FALSE]

\* a task that has no update, and the locals of a handler at its entry
IdleTask ==
    [pc |-> "idle", update |-> "none", data |-> << >>, uid |-> 0,
     username |-> "None", created_at |-> 0,
     user |-> NoUser, mode |-> "None", new_mode |-> FALSE,
     check_at |-> 0,
     checked |-> FALSE, has_access |-> FALSE, inf |-> FALSE,
     remaining_seconds |-> float(0),
     check_len |-> 0,
     input_text |-> "unset", response_words |-> 0, response_duration |-> float(0),
     voice_file_path |-> "None",
     in_created |-> 0, in_released |-> 0, out_created |-> 0, out_released |-> 0,
     stt |-> 0, gen |-> 0, tts |-> 0, combined |-> 0,
     reply |-> "none", notice |-> "none",
     appended |-> 0, append_pos |-> 0, delivered |-> 0,
     failed |-> "none", escaped |-> FALSE]

content_type(upd) == IF upd = "voice" THEN "voice" ELSE "text"

IsMessage(upd) == upd \in {"text", "voice"}

\* tasks that may still append an exchange
InPipeline == {t \in Tasks : IsMessage(task[t].update) /\ task[t].pc \notin {"idle", "done"}}

\* 1 when the collection is full and no execution is in flight
Room == IF Len(messages) = MaxMessages /\ InPipeline = {} THEN 1 ELSE 0

\* the process at the entry of the __main__ block
MainStart(environment, webhook_url) ==
    [pc |-> "start", ENVIRONMENT |-> environment, WEBHOOK_URL |-> webhook_url,
     is_production |-> FALSE, webhook_base_url |-> "unset", webhook |-> "unchanged",
     error |-> "none"]

\* the process once uvicorn.run serves /webhook, started in production
MainServing ==
    [MainStart("production", "https://bot") EXCEPT
        !.pc = "serving", !.is_production = TRUE, !.webhook_base_url = "https://bot",
        !.webhook = "set"]

\* the empty store and the server serving
Init ==
    /\ users = << >>
    /\ messages = << >>
    /\ now = 0
    /\ task = [t \in Tasks |-> IdleTask]
    /\ main = MainServing

\* the empty store and the process about to start, in any environment
InitMain ==
    /\ users = << >>
    /\ messages = << >>
    /\ now = 0
    /\ task = [t \in Tasks |-> IdleTask]
    /\ main \in {MainStart(e, w) : e \in Environments, w \in WebhookUrls}

\* An exception inside the try block of handle_message reaches line 594;
\* the other handlers have no try block and the exception leaves the handler.
\* failed keeps the first call of the execution that failed; the document
\* and the notice that were being sent are dropped.
raise(r, stage) ==
    LET first == IF r.failed = "none" THEN stage ELSE r.failed
        d == [r EXCEPT !.failed = first, !.reply = "none", !.username = "None",
                       !.created_at = 0, !.check_at = 0]
    IN  IF IsMessage(r.update)
        THEN [d EXCEPT !.pc = "except"]
        ELSE [d EXCEPT !.pc = "done", !.escaped = TRUE]

\* The bot dispatches an update to its handler, which runs to its first await.
\* A message goes to the first handler whose filters pass: a button handler
\* replies that the feature is to come (lines 336-360); handle_message returns
\* at once on a button label (lines 448-452); a command handler and
\* handle_message call get_or_create_user.  A callback query whose data does
\* not pass the filter of line 288 has no handler.  The first conjunct is the
\* bound on the size of db.messages.
receive_update(t, U, M) ==
    /\ task[t].pc = "idle"
    /\ \E uid \in U, upd \in M :
       \E data \in IF upd = "callback" THEN CallbackData ELSE {<< >>} :
       \E msg \in inbound(upd) :
          LET r == [IdleTask EXCEPT !.update = upd, !.data = data, !.uid = uid]
              handler == message_handler(msg)
              button == is_button_command(msg.text)
              escaped == [r EXCEPT !.failed = "TypeError", !.escaped = TRUE, !.pc = "done"]
          IN  /\ IsMessage(upd) => Len(messages) + Cardinality(InPipeline) < MaxMessages + Room
              /\ task' = [task EXCEPT ![t] =
                    IF upd = "callback"
                    THEN IF startswith_lang(data) THEN [r EXCEPT !.pc = "find_user"]
                         ELSE [r EXCEPT !.pc = "done"]
                    ELSE IF handler = "TypeError" THEN escaped
                    ELSE IF handler \in ButtonHandlers
                         THEN [r EXCEPT !.reply = "soon", !.pc = "reply"]
                    ELSE IF handler = "handle_message"
                         THEN IF button = "TypeError" THEN escaped
                              ELSE IF button = "True" THEN [r EXCEPT !.pc = "done"]
                              ELSE [r EXCEPT !.pc = "find_user"]
                    ELSE IF handler \in {"handle_start", "handle_help",
                                         "premium_audio_command", "language_command"}
                         THEN [r EXCEPT !.pc = "find_user"]
                    ELSE [r EXCEPT !.pc = "done"]]
    /\ UNCHANGED <<users, messages, now>>

\* get_or_create_user writing the defaults over the document it found
get_or_create_user_replace(t, H) ==
    /\ task[t].pc = "find_user"
    /\ \E ok \in BOOLEAN, username \in H :
          LET r == task[t]
              i == find_one(users, r.uid)
          IN  /\ users' = IF ok /\ i # 0
                          THEN [users EXCEPT ![i] = new_user(r.uid, username, now)]
                          ELSE users
              /\ task' = [task EXCEPT ![t] =
                    IF ~ok THEN raise(r, "store")
                    ELSE IF i = 0
                         THEN [r EXCEPT !.username = username, !.created_at = now,
                                        !.pc = "insert_user"]
                    ELSE [r EXCEPT !.pc = "have_user", !.user = NoUser]]
    /\ UNCHANGED <<messages, now>>

\* get_or_create_user, lines 16-26: users.find_one answers.  The document
\* found is returned as it is stored; for an unseen user id the default
\* document is built, with the handle of the update and the time of the clock
\* (line 24), and users.insert_one is awaited.  callback_language passes no
\* handle (line 291).
get_or_create_user_find(t, H) ==
    /\ task[t].pc = "find_user"
    /\ \E ok \in BOOLEAN,
          username \in IF task[t].update = "callback" THEN {"None"} ELSE H :
          LET r == task[t]
              i == find_one(users, r.uid)
          IN  task' = [task EXCEPT ![t] =
                IF ~ok THEN raise(r, "store")
                ELSE IF i = 0
                     THEN [r EXCEPT !.username = username, !.created_at = now,
                                    !.pc = "insert_user"]
                ELSE [r EXCEPT !.pc = "have_user",
                               !.user = [is_premium |-> users[i].is_premium,
                                         premium_audio_mode |-> users[i].premium_audio_mode]]]
    /\ UNCHANGED <<users, messages, now>>

\* get_or_create_user, lines 26-27: users.insert_one answers; the document
\* built before the await is stored and returned
get_or_create_user_insert(t) ==
    /\ task[t].pc = "insert_user"
    /\ \E ok \in BOOLEAN :
          LET r == task[t]
          IN  IF ok
              THEN /\ users' = Append(users, new_user(r.uid, r.username, r.created_at))
                   /\ task' = [task EXCEPT ![t] =
                         [r EXCEPT !.pc = "have_user", !.user = NoUser,
                                   !.username = "None", !.created_at = 0]]
              ELSE /\ users' = users
                   /\ task' = [task EXCEPT ![t] = raise(r, "store")]
    /\ UNCHANGED <<messages, now>>

\* handle_start, lines 165-186, after get_or_create_user returned
handle_start(t) ==
    /\ task[t].pc = "have_user"
    /\ task[t].update = "/start"
    /\ task' = [task EXCEPT ![t] = [task[t] EXCEPT !.reply = "welcome", !.pc = "reply"]]
    /\ UNCHANGED <<users, messages, now>>

\* handle_help, lines 194-221, after get_or_create_user returned
handle_help(t) ==
    /\ task[t].pc = "have_user"
    /\ task[t].update = "/help"
    /\ task' = [task EXCEPT ![t] = [task[t] EXCEPT !.reply = "help", !.pc = "reply"]]
    /\ UNCHANGED <<users, messages, now>>

\* handle_message_mode taking Premium Audio only for a premium user
handle_message_mode_premium(t) ==
    /\ task[t].pc = "have_user"
    /\ IsMessage(task[t].update)
    /\ LET r == task[t]
           m == resolve_mode(content_type(r.update),
                             r.user.premium_audio_mode /\ r.user.is_premium)
       IN  task' = [task EXCEPT ![t] =
             IF m # "Rejected" THEN [r EXCEPT !.mode = m, !.pc = "check_limits"]
             ELSE [r EXCEPT !.mode = m, !.reply = "need_voice", !.pc = "reply"]]
    /\ UNCHANGED <<users, messages, now>>

\* handle_message, lines 461-483, after get_or_create_user returned: the mode
\* of the message; with Premium Audio on and a message that is not voice the
\* user is told so (line 469), otherwise check_usage_limits is called and
\* awaits users.find_one (line 324)
handle_message_mode(t) ==
    /\ task[t].pc = "have_user"
    /\ IsMessage(task[t].update)
    /\ LET r == task[t]
           m == resolve_mode(content_type(r.update), r.user.premium_audio_mode)
       IN  task' = [task EXCEPT ![t] =
             IF m # "Rejected" THEN [r EXCEPT !.mode = m, !.pc = "check_limits"]
             ELSE [r EXCEPT !.mode = m, !.reply = "need_voice", !.pc = "reply"]]
    /\ UNCHANGED <<users, messages, now>>

\* check_usage_limits_find_one going on as admitted when the store fails
check_usage_limits_find_one_fail_open(t) ==
    /\ task[t].pc = "check_limits"
    /\ \E stored \in BOOLEAN :
          LET r == task[t]
              i == find_one(users, r.uid)
              res == check_usage_limits(TRUE, float(0))
          IN  task' = [task EXCEPT ![t] =
                IF ~stored \/ i = 0
                THEN [r EXCEPT !.failed = "store", !.has_access = TRUE, !.pc = "admission"]
                ELSE IF users[i].is_premium
                THEN [r EXCEPT !.checked = TRUE, !.check_len = Len(messages),
                               !.has_access = res.has_access, !.inf = res.inf,
                               !.remaining_seconds = res.remaining_seconds,
                               !.pc = "admission"]
                ELSE [r EXCEPT !.check_at = now, !.pc = "total_duration"]]
    /\ UNCHANGED <<users, messages, now>>

\* check_usage_limits, lines 324-328: users.find_one answers.  A premium user
\* gets (True, inf) at once; for the others get_total_voice_duration reads the
\* clock (database.py line 46) and awaits the cursor over db.messages.
check_usage_limits_find_one(t) ==
    /\ task[t].pc = "check_limits"
    /\ \E stored \in BOOLEAN :
          LET r == task[t]
              i == find_one(users, r.uid)
              res == check_usage_limits(TRUE, float(0))
          IN  task' = [task EXCEPT ![t] =
                IF ~stored \/ i = 0 THEN raise(r, "store")
                ELSE IF users[i].is_premium
                THEN [r EXCEPT !.checked = TRUE, !.check_len = Len(messages),
                               !.has_access = res.has_access, !.inf = res.inf,
                               !.remaining_seconds = res.remaining_seconds,
                               !.pc = "admission"]
                ELSE [r EXCEPT !.check_at = now, !.pc = "total_duration"]]
    /\ UNCHANGED <<users, messages, now>>

\* database.py lines 52-54 and app.py lines 329-331: the cursor answers with
\* the exchanges db.messages holds now, filtered with the cutoff computed
\* before the await, and check_usage_limits returns
check_usage_limits_total_duration(t) ==
    /\ task[t].pc = "total_duration"
    /\ \E stored \in BOOLEAN :
          LET r == task[t]
              res == check_usage_limits(FALSE, get_total_voice_duration(r.uid, r.check_at))
          IN  task' = [task EXCEPT ![t] =
                IF ~stored THEN raise(r, "store")
                ELSE [r EXCEPT !.checked = TRUE, !.check_len = Len(messages),
                               !.has_access = res.has_access, !.inf = res.inf,
                               !.remaining_seconds = res.remaining_seconds,
                               !.pc = "admission"]]
    /\ UNCHANGED <<users, messages, now>>

\* handle_message_check_limits without the return of lines 485-496
handle_message_check_limits_no_deny(t) ==
    /\ task[t].pc = "admission"
    /\ task' = [task EXCEPT ![t] = [task[t] EXCEPT !.pc = "chat_action"]]
    /\ UNCHANGED <<users, messages, now>>

\* handle_message, lines 483-499, when check_usage_limits has returned: the
\* limit notice when it denies, the chat action when it admits
handle_message_check_limits(t) ==
    /\ task[t].pc = "admission"
    /\ LET r == task[t]
       IN  task' = [task EXCEPT ![t] =
             IF ~r.has_access THEN [r EXCEPT !.reply = "limit", !.pc = "reply"]
             ELSE [r EXCEPT !.pc = "chat_action"]]
    /\ UNCHANGED <<users, messages, now>>

\* line 499: bot.send_chat_action answers; a text message goes to
\* generate_response (lines 543-546), a voice message to bot.get_file
send_chat_action(t) ==
    /\ task[t].pc = "chat_action"
    /\ \E sent \in BOOLEAN :
          LET r == task[t]
          IN  task' = [task EXCEPT ![t] =
                IF ~sent THEN raise(r, "transport")
                ELSE IF r.mode = "StandardText"
                     THEN [r EXCEPT !.input_text = "text", !.pc = "generate"]
                ELSE [r EXCEPT !.pc = "get_file"]]
    /\ UNCHANGED <<users, messages, now>>

\* lines 508 and 530: bot.get_file answers
get_file(t) ==
    /\ task[t].pc = "get_file"
    /\ \E ok \in BOOLEAN :
          task' = [task EXCEPT ![t] =
                IF ~ok THEN raise(task[t], "download")
                ELSE [task[t] EXCEPT !.pc = "download"]]
    /\ UNCHANGED <<users, messages, now>>

\* lines 509-514 and 531-536: bot.download_file answers and the voice message
\* is written to a temporary file
download_file(t) ==
    /\ task[t].pc = "download"
    /\ \E ok \in BOOLEAN :
          LET r == task[t]
          IN  task' = [task EXCEPT ![t] =
                IF ~ok THEN raise(r, "download")
                ELSE IF r.mode = "PremiumAudio"
                     THEN [r EXCEPT !.in_created = @ + 1, !.pc = "combined"]
                ELSE [r EXCEPT !.in_created = @ + 1, !.voice_file_path = "input",
                               !.pc = "stt"]]
    /\ UNCHANGED <<users, messages, now>>

\* lines 539-541: transcribe_voice, then the input file is unlinked
transcribe_voice(t) ==
    /\ task[t].pc = "stt"
    /\ \E ok \in BOOLEAN :
          LET r == [task[t] EXCEPT !.stt = @ + 1]
          IN  task' = [task EXCEPT ![t] =
                IF ~ok THEN raise(r, "stt")
                ELSE [r EXCEPT !.in_released = @ + 1, !.voice_file_path = "None",
                               !.input_text = "text", !.pc = "generate"]]
    /\ UNCHANGED <<users, messages, now>>

\* lines 517-523: process_audio_with_gpt4o answers with a reply whose number
\* of words is in W; it catches every exception of the combined call and
\* returns an error text with no audio file; the input file is unlinked after
\* it returns
process_audio_with_gpt4o(t, W) ==
    /\ task[t].pc = "combined"
    /\ \E ok \in BOOLEAN, w \in W, e \in ExceptionWords :
          LET r == [task[t] EXCEPT !.combined = @ + 1, !.in_released = @ + 1]
              words == IF ok THEN w ELSE ERROR_PREFIX_WORDS + e
          IN  task' = [task EXCEPT ![t] =
                IF ok
                THEN [r EXCEPT !.response_words = words,
                               !.response_duration = estimate_duration(words),
                               !.out_created = @ + 1, !.voice_file_path = "output",
                               !.pc = "post_check"]
                ELSE [r EXCEPT !.response_words = words,
                               !.response_duration = estimate_duration(words),
                               !.voice_file_path = "None", !.failed = "combined",
                               !.pc = "post_check"]]
    /\ UNCHANGED <<users, messages, now>>

\* lines 546-549: generate_response answers with a reply whose number of
\* words is in W, and the duration is estimated
generate_response(t, W) ==
    /\ task[t].pc = "generate"
    /\ \E ok \in BOOLEAN, w \in W :
          LET r == [task[t] EXCEPT !.gen = @ + 1]
          IN  task' = [task EXCEPT ![t] =
                IF ~ok THEN raise(r, "generate")
                ELSE [r EXCEPT !.response_words = w,
                               !.response_duration = estimate_duration(w),
                               !.pc = "tts"]]
    /\ UNCHANGED <<users, messages, now>>

\* line 552: generate_voice writes the synthesized audio to a temporary file
generate_voice(t) ==
    /\ task[t].pc = "tts"
    /\ \E ok \in BOOLEAN :
          LET r == [task[t] EXCEPT !.tts = @ + 1]
          IN  task' = [task EXCEPT ![t] =
                IF ~ok THEN raise(r, "tts")
                ELSE [r EXCEPT !.out_created = @ + 1, !.voice_file_path = "output",
                               !.pc = "post_check"]]
    /\ UNCHANGED <<users, messages, now>>

\* lines 554-576, when the generation has returned: the check after
\* generation; the exceed notice (line 556), or db.add_message is called,
\* builds its document with the time of the clock (database.py line 35) and
\* awaits messages.insert_one
handle_message_post_check(t) ==
    /\ task[t].pc = "post_check"
    /\ LET r == [task[t] EXCEPT !.check_at = 0]
       IN  task' = [task EXCEPT ![t] =
             IF would_exceed(r.user.is_premium, r.inf, r.remaining_seconds,
                             r.response_duration)
             THEN [r EXCEPT !.reply = "exceed", !.pc = "reply"]
             ELSE [r EXCEPT !.created_at = now, !.pc = "persist"]]
    /\ UNCHANGED <<users, messages, now>>

\* the document add_message inserts (database.py lines 30-36), built when
\* add_message was called; the input text is the message text or its
\* transcript, or the sentinel (app.py line 573)
exchange(r) ==
    [user_id |-> r.uid,
     input_text |-> IF r.input_text = "unset" THEN SENTINEL ELSE r.input_text,
     response_words |-> r.response_words,
     response_duration |-> r.response_duration,
     created_at |-> r.created_at]

\* handle_message going on to send_voice without db.add_message
add_message_skipped(t) ==
    /\ task[t].pc = "persist"
    /\ Len(messages) < MaxMessages
    /\ task' = [task EXCEPT ![t] = [task[t] EXCEPT !.created_at = 0, !.pc = "deliver"]]
    /\ UNCHANGED <<users, messages, now>>

\* database.py line 37: messages.insert_one answers
add_message(t) ==
    /\ task[t].pc = "persist"
    /\ Len(messages) < MaxMessages
    /\ \E ok \in BOOLEAN :
          LET r == task[t]
          IN  IF ok
              THEN /\ messages' = Append(messages, exchange(r))
                   /\ task' = [task EXCEPT ![t] =
                         [r EXCEPT !.appended = @ + 1, !.append_pos = Len(messages) + 1,
                                   !.created_at = 0, !.pc = "deliver"]]
              ELSE /\ messages' = messages
                   /\ task' = [task EXCEPT ![t] = raise(r, "persist")]
    /\ UNCHANGED <<users, now>>

\* lines 578-592: open(voice_file_path) raises when the path is None; after
\* send_voice the synthesized file is unlinked
send_voice(t) ==
    /\ task[t].pc = "deliver"
    /\ \E ok \in BOOLEAN :
          LET r == task[t]
          IN  task' = [task EXCEPT ![t] =
                IF r.voice_file_path = "None" THEN raise(r, "deliver")
                ELSE IF ~ok THEN raise(r, "transport")
                ELSE [r EXCEPT !.delivered = @ + 1, !.out_released = @ + 1,
                               !.notice = "voice", !.pc = "done"]]
    /\ UNCHANGED <<users, messages, now>>

\* The last message a handler sends before it returns (bot.reply_to, and
\* bot.send_message or bot.answer_callback_query where the handler uses them)
\* answers; after the exceed notice the synthesized file is unlinked (lines
\* 566-567).
reply_to(t) ==
    /\ task[t].pc = "reply"
    /\ \E sent \in BOOLEAN :
          LET r == task[t]
              released == IF r.reply = "exceed" /\ r.voice_file_path # "None" THEN 1 ELSE 0
          IN  task' = [task EXCEPT ![t] =
                IF ~sent THEN raise(r, "transport")
                ELSE [r EXCEPT !.notice = r.reply, !.reply = "none",
                               !.out_released = @ + released, !.pc = "done"]]
    /\ UNCHANGED <<users, messages, now>>

\* lines 594-595: the failure notice; an exception of reply_to leaves the handler
handle_message_except(t) ==
    /\ task[t].pc = "except"
    /\ \E ok \in BOOLEAN :
          task' = [task EXCEPT ![t] =
                IF ok THEN [task[t] EXCEPT !.notice = "error", !.pc = "done"]
                ELSE [task[t] EXCEPT !.escaped = TRUE, !.pc = "done"]]
    /\ UNCHANGED <<users, messages, now>>

\* premium_audio_command, lines 368-387, after get_or_create_user returned:
\* the premium notice, or the new mode is computed from the document returned
\* and users.update_one is awaited
premium_audio_command(t) ==
    /\ task[t].pc = "have_user"
    /\ task[t].update = "/premium_audio"
    /\ LET r == task[t]
       IN  task' = [task EXCEPT ![t] =
             IF ~r.user.is_premium THEN [r EXCEPT !.reply = "premium_only", !.pc = "reply"]
             ELSE [r EXCEPT !.new_mode = ~r.user.premium_audio_mode, !.pc = "update_one"]]
    /\ UNCHANGED <<users, messages, now>>

\* premium_audio_command, lines 384-394: users.update_one answers
premium_audio_command_update_one(t) ==
    /\ task[t].pc = "update_one"
    /\ \E stored \in BOOLEAN :
          LET r == task[t]
          IN  IF stored
              THEN /\ users' = update_premium_audio_mode(users, r.uid, r.new_mode)
                   /\ task' = [task EXCEPT ![t] =
                         [r EXCEPT !.reply = IF r.new_mode THEN "audio_on" ELSE "audio_off",
                                   !.pc = "reply"]]
              ELSE /\ users' = users
                   /\ task' = [task EXCEPT ![t] = raise(r, "store")]
    /\ UNCHANGED <<messages, now>>

\* language_command, lines 263-285, after get_or_create_user returned: the
\* premium notice, or the keyboard of the available languages
language_command(t) ==
    /\ task[t].pc = "have_user"
    /\ task[t].update = "/language"
    /\ LET r == task[t]
       IN  task' = [task EXCEPT ![t] =
             [r EXCEPT !.reply = IF r.user.is_premium THEN "keyboard" ELSE "premium_only",
                       !.pc = "reply"]]
    /\ UNCHANGED <<users, messages, now>>

\* callback_language, lines 293-302, after get_or_create_user returned: the
\* premium notice, or db.set_user_language is awaited
callback_language(t) ==
    /\ task[t].pc = "have_user"
    /\ task[t].update = "callback"
    /\ LET r == task[t]
       IN  task' = [task EXCEPT ![t] =
             IF ~r.user.is_premium THEN [r EXCEPT !.reply = "premium_only", !.pc = "reply"]
             ELSE [r EXCEPT !.pc = "set_user_language"]]
    /\ UNCHANGED <<users, messages, now>>

\* callback_language, line 302: the update of db.set_user_language answers;
\* the language stored is what is left of call.data
set_user_language(t) ==
    /\ task[t].pc = "set_user_language"
    /\ \E stored \in BOOLEAN :
          LET r == task[t]
          IN  IF stored
              THEN /\ users' = update_language(users, r.uid, selected_language(r.data))
                   /\ task' = [task EXCEPT ![t] = [r EXCEPT !.pc = "answer_callback_query"]]
              ELSE /\ users' = users
                   /\ task' = [task EXCEPT ![t] = raise(r, "store")]
    /\ UNCHANGED <<messages, now>>

\* callback_language, lines 304-306: bot.answer_callback_query answers, and
\* AVAILABLE_LANGUAGES is indexed with the language for the text of
\* bot.edit_message_text
answer_callback_query(t) ==
    /\ task[t].pc = "answer_callback_query"
    /\ \E sent \in BOOLEAN :
          LET r == task[t]
          IN  task' = [task EXCEPT ![t] =
                IF ~sent THEN raise(r, "transport")
                ELSE IF selected_language(r.data) \notin AVAILABLE_LANGUAGES
                     THEN raise(r, "KeyError")
                ELSE [r EXCEPT !.pc = "edit_message_text"]]
    /\ UNCHANGED <<users, messages, now>>

\* callback_language, lines 305-317: bot.edit_message_text answers and the
\* keyboard in the new language is sent
edit_message_text(t) ==
    /\ task[t].pc = "edit_message_text"
    /\ \E sent \in BOOLEAN :
          LET r == task[t]
          IN  task' = [task EXCEPT ![t] =
                IF ~sent THEN raise(r, "transport")
                ELSE [r EXCEPT !.reply = "language_set", !.pc = "reply"]]
    /\ UNCHANGED <<users, messages, now>>

\* The handler has returned (or its exception has left it) and the event loop
\* drops the finished task.
task_done(t) ==
    /\ task[t].pc = "done"
    /\ task' = [task EXCEPT ![t] = IdleTask]
    /\ UNCHANGED <<users, messages, now>>

\* set_premium_status(user_id, is_premium): one update_one, run by the operator
set_premium_status(uid, b) ==
    /\ users' = update_is_premium(users, uid, b)
    /\ users' # users
    /\ UNCHANGED <<messages, now, task>>

\* set_premium_audio_mode(user_id, enabled): one update_one; no handler calls it
set_premium_audio_mode(uid, b) ==
    /\ users' = update_premium_audio_mode(users, uid, b)
    /\ users' # users
    /\ UNCHANGED <<messages, now, task>>

\* the clock
tick ==
    /\ now + TickHours <= MaxTime
    /\ now' = now + TickHours
    /\ UNCHANGED <<users, messages, task>>

(* ---------------- the __main__ block (app.py lines 604-633) ---------------- *)

\* an exception that leaves the __main__ block ends the process
main_raise(m, e) == [m EXCEPT !.pc = "exited", !.error = e]

\* line 615 testing for None only
webhook_url_missing_none_only(webhook_base_url) == webhook_base_url = "None"

\* line 615: not webhook_base_url
webhook_url_missing(webhook_base_url) == webhook_base_url \in {"None", ""}

\* lines 606-610: is_production, then setup_bot_commands on the loop
main_setup_bot_commands ==
    /\ main.pc = "start"
    /\ \E ok \in BOOLEAN :
          main' = IF ok
                  THEN [main EXCEPT !.is_production = (main.ENVIRONMENT = "production"),
                                    !.pc = "commands_set"]
                  ELSE main_raise([main EXCEPT !.is_production =
                                       (main.ENVIRONMENT = "production")], "transport")
    /\ UNCHANGED <<users, messages, now, task>>

\* lines 612-616 in production: WEBHOOK_URL, ValueError when it is missing;
\* lines 624-626 otherwise: the public URL of the ngrok tunnel; then
\* set_webhook(url + "/webhook") is run on the loop (lines 619 and 629) and
\* awaits bot.remove_webhook (line 600)
main_webhook_url ==
    /\ main.pc = "commands_set"
    /\ \E ok \in BOOLEAN :
          main' = IF main.is_production
                  THEN IF webhook_url_missing(main.WEBHOOK_URL)
                       THEN main_raise([main EXCEPT !.webhook_base_url = main.WEBHOOK_URL],
                                       "ValueError")
                       ELSE [main EXCEPT !.webhook_base_url = main.WEBHOOK_URL,
                                         !.pc = "remove_webhook"]
                  ELSE IF ok
                       THEN [main EXCEPT !.webhook_base_url = "ngrok",
                                         !.pc = "remove_webhook"]
                       ELSE main_raise(main, "ngrok")
    /\ UNCHANGED <<users, messages, now, task>>

\* line 600: bot.remove_webhook answers; bot.set_webhook is awaited (line 601)
main_remove_webhook ==
    /\ main.pc = "remove_webhook"
    /\ \E ok \in BOOLEAN :
          main' = IF ok THEN [main EXCEPT !.webhook = "removed", !.pc = "set_webhook"]
                  ELSE main_raise(main, "transport")
    /\ UNCHANGED <<users, messages, now, task>>

\* line 601: bot.set_webhook answers; a failure leaves the webhook removed
main_set_webhook ==
    /\ main.pc = "set_webhook"
    /\ \E ok \in BOOLEAN :
          main' = IF ok THEN [main EXCEPT !.webhook = "set", !.pc = "run"]
                  ELSE main_raise(main, "transport")
    /\ UNCHANGED <<users, messages, now, task>>

\* lines 623 and 633: uvicorn.run(app, ...) serves /webhook, or raises (the
\* port is taken) and the exception leaves the block
main_uvicorn_run ==
    /\ main.pc = "run"
    /\ \E ok \in BOOLEAN :
          main' = IF ok THEN [main EXCEPT !.pc = "serving"]
                  ELSE main_raise(main, "OSError")
    /\ UNCHANGED <<users, messages, now, task>>

\* lines 623 and 633: uvicorn.run returns when the server is shut down, and
\* the block ends
main_uvicorn_run_returns ==
    /\ main.pc = "serving"
    /\ main' = [main EXCEPT !.pc = "exited"]
    /\ UNCHANGED <<users, messages, now, task>>

Startup ==
    \/ main_setup_bot_commands
    \/ main_webhook_url
    \/ main_remove_webhook
    \/ main_set_webhook
    \/ main_uvicorn_run
    \/ main_uvicorn_run_returns

\* updates reach the handlers through /webhook, while the server serves; the
\* handlers leave the __main__ block alone
Serving ==
    /\ main.pc = "serving"
    /\ UNCHANGED main

(* ---------------- the steps of the event loop ---------------- *)

\* The steps of handle_message, run by the tasks T for the updates M of the
\* users U, whose handles are in H and whose replies have a number of words
\* in W, and the clock, while the server serves.  The loop resumes whichever
\* task's call answers first: the steps of the tasks, of the clock and of the
\* operator interleave in every order.
Pipeline(T, U, M, H, W) ==
    \/ \E t \in T : Serving /\ receive_update(t, U, M)
    \/ \E t \in T : Serving /\ get_or_create_user_find(t, H)
    \/ \E t \in T : Serving /\ get_or_create_user_insert(t)
    \/ \E t \in T : Serving /\ handle_message_mode(t)
    \/ \E t \in T : Serving /\ check_usage_limits_find_one(t)
    \/ \E t \in T : Serving /\ check_usage_limits_total_duration(t)
    \/ \E t \in T : Serving /\ handle_message_check_limits(t)
    \/ \E t \in T : Serving /\ send_chat_action(t)
    \/ \E t \in T : Serving /\ get_file(t)
    \/ \E t \in T : Serving /\ download_file(t)
    \/ \E t \in T : Serving /\ transcribe_voice(t)
    \/ \E t \in T : Serving /\ generate_response(t, W)
    \/ \E t \in T : Serving /\ generate_voice(t)
    \/ \E t \in T : Serving /\ handle_message_post_check(t)
    \/ \E t \in T : Serving /\ add_message(t)
    \/ \E t \in T : Serving /\ send_voice(t)
    \/ \E t \in T : Serving /\ reply_to(t)
    \/ \E t \in T : Serving /\ handle_message_except(t)
    \/ \E t \in T : Serving /\ task_done(t)
    \/ Serving /\ tick

\* The steps that exist only once a user is premium: the change of the premium
\* status, the /premium_audio command and the Premium Audio path.
Premium(T, U, W) ==
    \/ \E uid \in U, b \in BOOLEAN : Serving /\ set_premium_status(uid, b)
    \/ \E t \in T : Serving /\ premium_audio_command(t)
    \/ \E t \in T : Serving /\ premium_audio_command_update_one(t)
    \/ \E t \in T : Serving /\ process_audio_with_gpt4o(t, W)

\* the replies of 3 s and of 10 s
WholeSeconds == {9, 30}

\* a reply of 3 s and a reply of 64.33333333333333 s, longer than the daily
\* limit, which only a premium user is given
PremiumWords == {9, 193}

\* One update at a time, one user: every handler, the premium status, the clock.
Next ==
    \/ Pipeline({1}, {1}, Updates, Usernames, PremiumWords)
    \/ Premium({1}, {1}, PremiumWords)

Spec == Init /\ [][Next]_vars

\* One update at a time, two users who are never premium.
NextUsers == Pipeline({1}, UserIds, {"text", "voice", "button"}, {"ann"}, ReplyWords)

SpecUsers == Init /\ [][NextUsers]_vars

\* The steps of handle_message for text messages of the users U, whose
\* replies have a number of words in W, run by the tasks T, and the clock.
TextPipeline(T, U, W) ==
    \/ \E t \in T : Serving /\ receive_update(t, U, {"text"})
    \/ \E t \in T : Serving /\ get_or_create_user_find(t, {"ann"})
    \/ \E t \in T : Serving /\ get_or_create_user_insert(t)
    \/ \E t \in T : Serving /\ handle_message_mode(t)
    \/ \E t \in T : Serving /\ check_usage_limits_find_one(t)
    \/ \E t \in T : Serving /\ check_usage_limits_total_duration(t)
    \/ \E t \in T : Serving /\ handle_message_check_limits(t)
    \/ \E t \in T : Serving /\ send_chat_action(t)
    \/ \E t \in T : Serving /\ generate_response(t, W)
    \/ \E t \in T : Serving /\ generate_voice(t)
    \/ \E t \in T : Serving /\ handle_message_post_check(t)
    \/ \E t \in T : Serving /\ add_message(t)
    \/ \E t \in T : Serving /\ send_voice(t)
    \/ \E t \in T : Serving /\ reply_to(t)
    \/ \E t \in T : Serving /\ handle_message_except(t)
    \/ \E t \in T : Serving /\ task_done(t)
    \/ Serving /\ tick

\* the replies of the concurrent executions: 20 words twice are over the
\* daily limit, 10 words twice are not
RaceWords == {10, 20}

\* Two concurrent executions of handle_message for text messages of one user
\* who is never premium.
NextRace == TextPipeline(Tasks, {1}, RaceWords)

SpecRace == Init /\ [][NextRace]_vars

\* The handlers of the commands and of the settings of a user, run by the
\* tasks T for the updates M of the users U, and the changes of the premium
\* status and of the Premium Audio mode made from outside the handlers.
Settings(T, U, M) ==
    \/ \E t \in T : Serving /\ receive_update(t, U, M)
    \/ \E t \in T : Serving /\ get_or_create_user_find(t, {"ann"})
    \/ \E t \in T : Serving /\ get_or_create_user_insert(t)
    \/ \E t \in T : Serving /\ handle_start(t)
    \/ \E t \in T : Serving /\ handle_help(t)
    \/ \E t \in T : Serving /\ premium_audio_command(t)
    \/ \E t \in T : Serving /\ premium_audio_command_update_one(t)
    \/ \E t \in T : Serving /\ language_command(t)
    \/ \E t \in T : Serving /\ callback_language(t)
    \/ \E t \in T : Serving /\ set_user_language(t)
    \/ \E t \in T : Serving /\ answer_callback_query(t)
    \/ \E t \in T : Serving /\ edit_message_text(t)
    \/ \E t \in T : Serving /\ reply_to(t)
    \/ \E t \in T : Serving /\ task_done(t)
    \/ \E uid \in U, b \in BOOLEAN : Serving /\ set_premium_status(uid, b)
    \/ \E uid \in U, b \in BOOLEAN : Serving /\ set_premium_audio_mode(uid, b)

\* Two concurrent handlers of settings updates of one user.
NextSettings == Settings(Tasks, {1}, SettingsUpdates)

SpecSettings == Init /\ [][NextSettings]_vars

\* The process from its start, in any environment, and then one update at a
\* time of one user who is never premium.
NextMain ==
    \/ Startup
    \/ Pipeline({1}, {1}, {"text", "voice", "button"}, {"ann"}, WholeSeconds)

SpecMain == InitMain /\ [][NextMain]_vars

(* ---------------- vocabulary of the properties ---------------- *)

\* the daily limit, as a float and as the number of words of that duration
Limit == float(FREE_TIER_DAILY_LIMIT)
LimitWords == WORDS_PER_SECOND * FREE_TIER_DAILY_LIMIT

\* the float sum of the durations of the exchanges of S among the first k of
\* the log, added in the order of the log
RECURSIVE SumUpTo(_, _)
SumUpTo(k, S) ==
    IF k = 0 THEN float(0)
    ELSE IF k \in S THEN float_add(SumUpTo(k - 1, S), messages[k].response_duration)
    ELSE SumUpTo(k - 1, S)

Sum(S) == SumUpTo(Len(messages), S)

\* the number of words of the replies of the exchanges of S
RECURSIVE Words(_)
Words(S) ==
    IF S = {} THEN 0
    ELSE LET i == CHOOSE j \in S : TRUE
         IN  messages[i].response_words + Words(S \ {i})

\* the age of an exchange at the time t
AgeAt(i, t) == t - messages[i].created_at

Age(i) == AgeAt(i, now)

Of(uid) == {i \in 1..Len(messages) : messages[i].user_id = uid}

\* the usage window at the time t: the user's exchanges of the 24 hours
\* before t
WindowAt(uid, t) == {i \in Of(uid) : AgeAt(i, t) <= WINDOW_HOURS}

Window(uid) == WindowAt(uid, now)

\* the user document the store returns for the user of r
Doc(r) == users[find_one(users, r.uid)]

\* The admission check of the task has summed the usage window: it read the
\* user as not premium and its cursor has answered.  r.check_at is the
\* evaluation time (the clock read for the cutoff) and r.check_len the length
\* of the log when the cursor answered; the log is append-only, so the
\* exchanges the cursor saw are the first r.check_len.
SummedWindow(r) ==
    /\ r.checked /\ ~r.inf
    /\ \/ r.pc \in {"admission", "chat_action", "get_file", "download", "stt",
                     "combined", "generate", "tts", "post_check"}
       \/ r.pc = "reply" /\ r.reply = "limit"
       \/ r.pc = "done" /\ r.notice = "limit"

Seen(r) == {i \in Of(r.uid) : i <= r.check_len}

\* the execution compared its reply against a finite remaining time
Metered(r) == ~r.user.is_premium /\ ~r.inf

\* exchanges of the user of r appended after the admission check of r and
\* before its own exchange
Meanwhile(r) == {i \in Of(r.uid) : r.check_len < i /\ i < r.append_pos}

Calls(r) == r.stt + r.gen + r.tts + r.combined

(* ---------------- C1 ---------------- *)

\* C1: two executions of one non-premium user can both pass the admission
\* check before either appends, and then the usage window exceeds the daily
\* limit.  What holds of every execution that has appended: the exchanges of
\* the window up to its own, without those that other executions appended
\* between its admission check and its own append, are within the limit (as
\* the float sum the program computes, and in words); so an overrun needs
\* such a race.
C1_OverrunOnlyByRace ==
    \A t \in Tasks :
        LET r == task[t]
            mine == {i \in Window(r.uid) : i <= r.append_pos} \ Meanwhile(r)
        IN  (r.appended = 1 /\ Metered(r))
            => /\ float_le(Sum(mine), Limit)
               /\ Words(mine) <= LimitWords

\* the race: the execution checked when the log was empty, another execution
\* of the same user appended first, and the window is now over the limit
C1_RaceOverruns ==
    \E t \in Tasks :
        LET r == task[t]
        IN  /\ r.pc = "deliver" /\ Metered(r)
            /\ ~Doc(r).is_premium
            /\ r.check_len = 0 /\ r.append_pos = 2
            /\ Meanwhile(r) = {1}
            /\ float_lt(Limit, Sum(Window(r.uid)))
            /\ \E o \in Tasks \ {t} : task[o].pc = "deliver" /\ task[o].append_pos = 1

(* ---------------- C2 ---------------- *)

\* C2: for a non-premium user admitted with remaining r > 0, when every
\* collaborator call succeeds: a reply of duration d > r gets the exceed
\* notice, no exchange, no voice, and its audio file is released; a reply of
\* duration d <= r is appended and delivered.  r and d are the floats the
\* execution holds.
C2_PostCheck ==
    \A t \in Tasks :
        LET r == task[t]
        IN  (/\ r.pc = "done" /\ IsMessage(r.update)
             /\ r.has_access /\ Metered(r) /\ r.failed = "none")
            => /\ float_lt(float(0), r.remaining_seconds)
               /\ IF float_lt(r.remaining_seconds, r.response_duration)
                  THEN /\ r.notice = "exceed"
                       /\ r.appended = 0 /\ r.delivered = 0
                       /\ r.out_created = 1 /\ r.out_released = 1
                  ELSE r.appended = 1 /\ r.delivered = 1

\* after an exchange of 10 words a reply of 20 words is refused: the
\* remaining time is 10 - 3.3333333333333335 = 6.666666666666666 and the
\* duration 20 / 3 = 6.666666666666667
C2_Rejected ==
    \E t \in Tasks :
        LET r == task[t]
        IN  /\ r.pc = "done" /\ IsMessage(r.update)
            /\ r.has_access /\ Metered(r) /\ r.failed = "none"
            /\ r.remaining_seconds = float_sub(Limit, float_div_3(10))
            /\ r.response_words = 20 /\ r.response_duration = float_div_3(20)
            /\ r.notice = "exceed"

(* ---------------- C3 ---------------- *)

\* C3: when users.find_one answers the admission check with a user document
\* whose premium flag is true, the check returns allowed, with unbounded
\* remaining time, whatever the log holds.
C3_PremiumUnlimited ==
    [][\A t \in Tasks :
          (/\ task[t].pc = "check_limits"
           /\ task'[t].pc \notin {"check_limits", "except"}
           /\ find_one(users, task[t].uid) # 0
           /\ Doc(task[t]).is_premium)
          => /\ task'[t].pc = "admission"
             /\ task'[t].checked /\ task'[t].has_access /\ task'[t].inf]_vars

\* a premium user whose usage window is at the limit is admitted
C3_PremiumOverLimit ==
    \E t \in Tasks :
        LET r == task[t]
        IN  /\ r.pc = "admission" /\ r.checked /\ r.inf /\ r.has_access
            /\ Doc(r).is_premium
            /\ float_le(Limit, Sum(Window(r.uid)))

(* ---------------- C4 ---------------- *)

\* C4: the admission check of a user it reads as not premium sums the usage
\* window of that user at the evaluation time and returns
\* remaining = limit - sum, in the floats of the program, and allows iff
\* remaining > 0; when the sum is the limit or more, it denies.
C4_FreeTierRemaining ==
    [][\A t \in Tasks :
          LET r == task[t]
              q == task'[t]
              window == WindowAt(r.uid, r.check_at)
          IN  /\ (/\ r.pc = "check_limits"
                  /\ q.pc \notin {"check_limits", "except"}
                  /\ find_one(users, r.uid) # 0
                  /\ ~Doc(r).is_premium)
                 => (q.pc = "total_duration" /\ ~q.checked /\ q.check_at = now)
              /\ (r.pc = "total_duration" /\ q.pc = "admission")
                 => /\ q.checked /\ ~q.inf
                    /\ q.remaining_seconds = float_sub(Limit, Sum(window))
                    /\ q.has_access <=> float_lt(float(0), q.remaining_seconds)
                    /\ float_le(Limit, Sum(window)) => ~q.has_access]_vars

\* denied at exactly the limit, while another user has exchanges in the log
C4_DeniedAtLimit ==
    \E t \in Tasks :
        LET r == task[t]
        IN  /\ r.pc = "admission" /\ SummedWindow(r) /\ ~Doc(r).is_premium
            /\ Seen(r) = Of(r.uid)
            /\ Sum(WindowAt(r.uid, r.check_at)) = Limit
            /\ ~r.has_access
            /\ \E i \in 1..Len(messages) : messages[i].user_id # r.uid

(* ---------------- C5 ---------------- *)

\* C5: what the admission check counts lies between the exchanges younger than
\* 24 hours and the exchanges not older than 24 hours, at the evaluation time;
\* a user all of whose exchanges are older than 24 hours is admitted with the
\* full limit.
C5_TrailingWindow ==
    \A t \in Tasks :
        LET r == task[t]
            age(i) == AgeAt(i, r.check_at)
            younger == {i \in Seen(r) : age(i) < WINDOW_HOURS}
            not_older == {i \in Seen(r) : ~(age(i) > WINDOW_HOURS)}
        IN  SummedWindow(r)
            => /\ float_le(r.remaining_seconds, float_sub(Limit, Sum(younger)))
               /\ float_le(float_sub(Limit, Sum(not_older)), r.remaining_seconds)
               /\ (\A i \in Seen(r) : age(i) > WINDOW_HOURS)
                     => (r.has_access /\ r.remaining_seconds = Limit)

\* exchanges that filled the limit have aged out and the user is admitted again
C5_AdmittedAgain ==
    \E t \in Tasks :
        LET r == task[t]
        IN  /\ r.pc = "admission" /\ SummedWindow(r) /\ ~Doc(r).is_premium
            /\ Seen(r) = Of(r.uid)
            /\ float_le(Limit, Sum(Of(r.uid)))
            /\ \A i \in Of(r.uid) : AgeAt(i, r.check_at) > WINDOW_HOURS
            /\ r.has_access

(* ---------------- C6 ---------------- *)

\* C6: every temporary audio file an execution creates is released exactly
\* once before the execution ends, on every exit path.
C6_ReleasedExactlyOnce ==
    \A t \in Tasks :
        LET r == task[t]
        IN  /\ r.in_released <= r.in_created
            /\ r.out_released <= r.out_created
            /\ r.pc = "done" => (r.in_released = r.in_created
                                 /\ r.out_released = r.out_created)

(* ---------------- C7 ---------------- *)

\* C7: an execution in which acquiring the input or generating the reply
\* failed appends no exchange.
C7_NoExchangeAfterFailure ==
    \A t \in Tasks :
        LET r == task[t]
        IN  r.failed \in {"download", "stt", "generate", "combined"} => r.appended = 0

(* ---------------- C8 ---------------- *)

\* the execution has its user document and is past lines 461-474
Resolved(r) ==
    /\ IsMessage(r.update)
    /\ r.pc \notin {"idle", "find_user", "insert_user", "have_user"}
    /\ ~(r.failed = "store" /\ ~r.checked /\ r.mode = "None")

\* C8: with Premium Audio on and a message that is not voice, the execution
\* only notifies the user: no admission check, no collaborator call, no file,
\* no exchange.
C8_RejectedDoesNothing ==
    \A t \in Tasks :
        LET r == task[t]
        IN  (Resolved(r) /\ r.user.premium_audio_mode /\ r.update # "voice")
            => /\ ~r.checked
               /\ Calls(r) = 0
               /\ r.in_created = 0 /\ r.out_created = 0
               /\ r.appended = 0 /\ r.delivered = 0
               /\ r.notice \in {"none", "need_voice", "error"}
               /\ (r.pc = "done" /\ r.failed = "none") => r.notice = "need_voice"

C8_ToldToSendVoice ==
    \E t \in Tasks :
        LET r == task[t]
        IN  /\ r.pc = "done" /\ r.update = "text"
            /\ r.user.premium_audio_mode /\ r.user.is_premium
            /\ r.notice = "need_voice"

(* ---------------- C9 ---------------- *)

\* C9: a premium user with Premium Audio on sends voice and every call
\* succeeds: one combined-audio call, no other speech or generation call, one
\* exchange appended, whose input text is the sentinel.
C9_PremiumAudioExchange ==
    \A t \in Tasks :
        LET r == task[t]
        IN  (/\ r.pc = "done" /\ r.update = "voice"
             /\ r.user.premium_audio_mode /\ r.user.is_premium /\ r.inf
             /\ r.failed = "none")
            => /\ r.combined = 1
               /\ r.stt = 0 /\ r.gen = 0 /\ r.tts = 0
               /\ r.appended = 1
               /\ r.append_pos = Len(messages)
               /\ messages[r.append_pos].input_text = SENTINEL
               /\ messages[r.append_pos].user_id = r.uid

C9_PremiumAudioDelivered ==
    \E t \in Tasks :
        LET r == task[t]
        IN  /\ r.pc = "done" /\ r.update = "voice"
            /\ r.user.premium_audio_mode /\ r.user.is_premium /\ r.inf
            /\ r.failed = "none" /\ r.delivered = 1

(* ---------------- C10 ---------------- *)

ModeTable(ctype, audio_mode) ==
    CASE ctype # "voice" /\ audio_mode -> "Rejected"
      [] ctype = "voice" /\ audio_mode -> "PremiumAudio"
      [] ctype = "voice" /\ ~audio_mode -> "StandardVoice"
      [] ctype # "voice" /\ ~audio_mode -> "StandardText"

\* C10: the mode of a message is the table on (content type, Premium Audio
\* flag) and nothing else, and the calls the execution makes are those of
\* its mode.
C10_ModeIsTable ==
    \A t \in Tasks :
        LET r == task[t]
        IN  Resolved(r)
            => /\ r.mode = ModeTable(content_type(r.update), r.user.premium_audio_mode)
               /\ r.mode = "Rejected" => Calls(r) = 0
               /\ r.mode = "PremiumAudio" => r.stt + r.gen + r.tts = 0
               /\ r.mode = "StandardVoice" => r.combined = 0
               /\ r.mode = "StandardText" => r.stt + r.combined + r.in_created = 0

\* the premium flag does not enter: Premium Audio for a user no longer premium
C10_ModeIgnoresPremium ==
    \E t \in Tasks :
        LET r == task[t]
        IN  /\ Resolved(r) /\ r.mode = "PremiumAudio"
            /\ ~r.user.is_premium /\ r.combined = 1

(* ---------------- C11 ---------------- *)

\* C11: no error raised during an execution of handle_message leaves the
\* handler, the failure of the failure notice included.
C11_NoErrorEscapes ==
    \A t \in Tasks :
        LET r == task[t]
        IN  IsMessage(r.update) => ~r.escaped

(* ---------------- C12 ---------------- *)

\* C12: the users collection holds at most one document per user id.
C12_OneUserRecord ==
    \A i, j \in 1..Len(users) :
        users[i].user_id = users[j].user_id => i = j

(* ---------------- C13 ---------------- *)

\* C13: get_or_create_user for a user id that has a document leaves the users
\* collection as it is (every field of the document, no insert) and returns
\* the stored values; so does every further call.
C13_GetOrCreateExisting ==
    [][\A t \in Tasks :
          (/\ task[t].pc = "find_user"
           /\ find_one(users, task[t].uid) # 0
           /\ task'[t].pc \notin {"find_user", "except", "done"})
          => /\ users' = users
             /\ task'[t].pc = "have_user"
             /\ task'[t].user.is_premium = Doc(task[t]).is_premium
             /\ task'[t].user.premium_audio_mode = Doc(task[t]).premium_audio_mode]_vars

\* a message handler got the document of a user whose fields are no longer
\* the defaults, a day after the document was created
C13_ReturnedStored ==
    \E t \in Tasks :
        LET r == task[t]
        IN  /\ r.pc = "check_limits" /\ r.failed = "none"
            /\ r.user.is_premium /\ r.user.premium_audio_mode
            /\ Len(users) = 1
            /\ Doc(r).is_premium /\ Doc(r).premium_audio_mode
            /\ Doc(r).created_at < now

(* ---------------- C14 ---------------- *)

\* the store failed in check_usage_limits: the mode is resolved, the check
\* returned nothing
StoreFailedInCheck(r) ==
    /\ IsMessage(r.update)
    /\ r.failed = "store" /\ ~r.checked
    /\ r.mode \in {"StandardText", "StandardVoice", "PremiumAudio"}

\* C14: an execution whose admission check fails on the store is denied: no
\* download, no speech or generation call, no exchange, no voice reply.
C14_StoreFailureDenies ==
    \A t \in Tasks :
        LET r == task[t]
        IN  StoreFailedInCheck(r)
            => /\ Calls(r) = 0
               /\ r.in_created = 0 /\ r.out_created = 0
               /\ r.appended = 0 /\ r.delivered = 0
               /\ r.pc \in {"except", "done"}
               /\ r.notice \in {"none", "error"}

\* the store failed in the check of a voice message and the user got the
\* failure notice
C14_DeniedWithNotice ==
    \E t \in Tasks :
        LET r == task[t]
        IN  /\ StoreFailedInCheck(r) /\ r.mode = "StandardVoice"
            /\ r.pc = "done" /\ r.notice = "error"

(* ---------------- C15 ---------------- *)

\* d is the double nearest to w / 3: a double, and within half the distance
\* of two doubles from w / 3
IsThirdOf(d, w) ==
    LET ulp == 3 * (2 ^ ulp_exponent(Float(w, 0)))
    IN  /\ d.n = w
        /\ residue(d, ulp_exponent(d)) = 0
        /\ 2 * d.e <= ulp /\ -2 * d.e <= ulp

\* C15: a non-premium user with Premium Audio off and nothing in the usage
\* window is admitted with the whole limit; a text message whose reply of w
\* words has w / 3 <= limit then appends exactly one exchange, of duration
\* w / 3, and the voice reply is delivered (when no call fails).
C15_FirstTextReply ==
    \A t \in Tasks :
        LET r == task[t]
            m == messages[r.append_pos]
        IN  /\ (SummedWindow(r) /\ {i \in Seen(r) : AgeAt(i, r.check_at) <= WINDOW_HOURS} = {})
               => (r.has_access /\ r.remaining_seconds = Limit)
            /\ (/\ r.pc = "done" /\ r.update = "text" /\ r.failed = "none"
                /\ ~r.user.is_premium /\ ~r.user.premium_audio_mode
                /\ r.checked /\ ~r.inf /\ r.remaining_seconds = Limit
                /\ r.response_words <= LimitWords)
               => /\ r.gen = 1 /\ r.tts = 1
                  /\ r.appended = 1 /\ r.delivered = 1 /\ r.notice = "voice"
                  /\ r.append_pos = Len(messages)
                  /\ Len(messages) = r.check_len + 1
                  /\ m.user_id = r.uid /\ m.input_text = "text"
                  /\ m.response_words = r.response_words
                  /\ IsThirdOf(m.response_duration, m.response_words)

\* the 9-word reply: duration 3, appended and delivered, for a user whose
\* earlier exchange has left the window
C15_NineWords ==
    \E t \in Tasks :
        LET r == task[t]
        IN  /\ r.pc = "done" /\ r.update = "text" /\ r.failed = "none"
            /\ ~r.user.is_premium /\ ~r.user.premium_audio_mode
            /\ r.checked /\ r.remaining_seconds = Limit
            /\ r.response_words = 9 /\ r.delivered = 1
            /\ Len(messages) = 2 /\ messages[1].user_id = r.uid
            /\ messages[2].response_duration = float(3)

(* ---------------- C16 ---------------- *)

\* the exchanges of one user among the first k, in the order of the log
OwnExchanges(uid, k) == SelectSeq(SubSeq(messages, 1, k), LAMBDA m : m.user_id = uid)

\* the durations of the replies
ReplyDurations == [w \in ReplyWords |-> estimate_duration(w)]

\* an exchange some other user could append now
ForeignExchanges(uid) ==
    {[user_id |-> o, input_text |-> "text", response_words |-> w,
      response_duration |-> ReplyDurations[w], created_at |-> now] :
        o \in UserIds \ {uid}, w \in ReplyWords}

\* C16: the result of the admission check of a user is a function of the
\* user's premium flag and own exchanges: on the log and at the time of every
\* state between two executions, it is the result on the log without the
\* exchanges of the other users, and it stays the same when another user
\* appends an exchange; and what an execution got is the result on the own
\* exchanges of its user.
C16_NoCrossUser ==
    \A uid \in UserIds :
        /\ \A p \in IF \A t \in Tasks : task[t].pc = "idle" THEN BOOLEAN ELSE {} :
              LET result == check_usage_limits(p, sum_durations(messages, uid, now))
              IN  /\ result = check_usage_limits(p,
                                  sum_durations(OwnExchanges(uid, Len(messages)), uid, now))
                  /\ \A x \in ForeignExchanges(uid) :
                        check_usage_limits(p, sum_durations(Append(messages, x), uid, now))
                           = result
        /\ \A t \in Tasks :
              LET r == task[t]
                  own == check_usage_limits(FALSE,
                            sum_durations(OwnExchanges(uid, r.check_len), uid, r.check_at))
              IN  (SummedWindow(r) /\ r.uid = uid)
                  => /\ r.remaining_seconds = own.remaining_seconds
                     /\ r.has_access = own.has_access

\* a user is admitted with the whole limit while the other user has used up
\* their own
C16_OtherUserAtLimit ==
    \E t \in Tasks :
        LET r == task[t]
        IN  /\ r.pc = "admission" /\ SummedWindow(r) /\ ~Doc(r).is_premium
            /\ r.has_access /\ r.remaining_seconds = Limit
            /\ \E o \in UserIds \ {r.uid} : float_le(Limit, Sum(Window(o)))

(* ---------------- C17 ---------------- *)

ProductionWithoutUrl ==
    main.ENVIRONMENT = "production" /\ main.WEBHOOK_URL \in {"None", ""}

\* C17: started in production with no webhook URL, the process never sets a
\* webhook, never runs the web server and never handles an update; once the
\* URL is read it has ended with the ValueError.
C17_NoServingWithoutUrl ==
    ProductionWithoutUrl
    => /\ main.pc \in {"start", "commands_set", "exited"}
       /\ main.webhook = "unchanged"
       /\ main.webhook_base_url # "unset" => (main.pc = "exited" /\ main.error = "ValueError")
       /\ \A t \in Tasks : task[t].pc = "idle"
       /\ users = << >> /\ messages = << >>

\* WEBHOOK_URL is set and empty, and the start has failed with the ValueError
C17_StartupFailed ==
    /\ main.ENVIRONMENT = "production" /\ main.WEBHOOK_URL = ""
    /\ main.pc = "exited" /\ main.error = "ValueError"

(* ---------------- C18 ---------------- *)

\* C18: for users who are never premium and whose executions run one at a
\* time, the durations of a user's exchanges of the trailing 24 hours never
\* sum to more than the daily limit: not as the float sum the program
\* computes, and not in words at 3 words per second.
C18_WindowWithinLimit ==
    \A uid \in UserIds :
        /\ float_le(Sum(Window(uid)), Limit)
        /\ Words(Window(uid)) <= LimitWords

\* a user has two exchanges in the window and the next reply, which would
\* take the window over the limit, is refused
C18_LimitFilled ==
    \E t \in Tasks :
        LET r == task[t]
        IN  /\ Cardinality(Window(r.uid)) = 2
            /\ r.pc = "done" /\ r.notice = "exceed" /\ r.appended = 0
            /\ Words(Window(r.uid)) + r.response_words > LimitWords

(* ---------------- C19 ---------------- *)

\* C19: a user document with premium_audio_mode true has is_premium true, and
\* the Premium Audio path runs only for a user read as premium.
C19_AudioModeImpliesPremium ==
    /\ \A i \in 1..Len(users) : users[i].premium_audio_mode => users[i].is_premium
    /\ \A t \in Tasks : task[t].mode = "PremiumAudio" => task[t].user.is_premium

(* ---------------- C20 ---------------- *)

\* C20: an execution downloads, calls a speech or generation collaborator,
\* appends or delivers only after its own admission check has allowed; an
\* execution whose check denies makes none of these and ends with the limit
\* notice (with the failure notice when the limit notice cannot be sent).
C20_AdmissionFirst ==
    \A t \in Tasks :
        LET r == task[t]
            acted == \/ Calls(r) > 0 \/ r.in_created > 0 \/ r.out_created > 0
                     \/ r.appended > 0 \/ r.delivered > 0
                     \/ r.pc \in {"chat_action", "get_file", "download", "stt", "combined",
                                  "generate", "tts", "post_check", "persist", "deliver"}
                     \/ r.reply = "exceed"
        IN  IsMessage(r.update)
            => /\ acted => (r.checked /\ r.has_access)
               /\ (r.checked /\ ~r.has_access)
                  => /\ r.pc \in {"admission", "reply", "except", "done"}
                     /\ r.reply \in {"none", "limit"}
                     /\ r.notice \in {"none", "limit", "error"}
                     /\ (r.pc = "done" /\ r.failed = "none") => r.notice = "limit"

\* a voice message is denied at the limit: the limit notice, no download
C20_DeniedVoice ==
    \E t \in Tasks :
        LET r == task[t]
        IN  /\ r.update = "voice" /\ r.pc = "done"
            /\ r.checked /\ ~r.has_access /\ r.notice = "limit"
            /\ r.in_created = 0 /\ Calls(r) = 0

(* ---------------- C21 ---------------- *)

\* C21: an execution appends at most one exchange; at the delivery and after
\* it, in each of the three modes, it has appended exactly one, which is in
\* the log with the reply of the execution and, for Premium Audio, the
\* sentinel as input text.
C21_OneExchangeBeforeDelivery ==
    \A t \in Tasks :
        LET r == task[t]
            m == messages[r.append_pos]
        IN  /\ r.appended <= 1
            /\ r.appended = 0 => r.delivered = 0
            /\ (r.pc = "deliver" \/ r.delivered > 0)
               => /\ r.mode \in {"StandardText", "StandardVoice", "PremiumAudio"}
                  /\ r.appended = 1
                  /\ r.append_pos \in 1..Len(messages)
                  /\ m.user_id = r.uid
                  /\ m.response_words = r.response_words
                  /\ m.response_duration = r.response_duration
                  /\ (m.input_text = SENTINEL) = (r.mode = "PremiumAudio")

\* a transcribed voice message has been answered by voice and its exchange is
\* the last of the log
C21_DeliveredStandardVoice ==
    \E t \in Tasks :
        LET r == task[t]
        IN  /\ r.mode = "StandardVoice" /\ r.delivered = 1 /\ r.appended = 1
            /\ r.append_pos = Len(messages)
            /\ messages[r.append_pos].input_text = "text"

(* ---------------- C22 ---------------- *)

\* C22: an execution that has appended an exchange delivers the voice reply:
\* when it ends it has delivered, and it has not ended with the failure notice.
C22_AppendedIsDelivered ==
    \A t \in Tasks :
        LET r == task[t]
        IN  (r.pc = "done" /\ r.appended > 0)
            => (r.delivered = 1 /\ r.notice = "voice")

(* ---------------- C23 ---------------- *)

\* C23: the language of every user document is one of AVAILABLE_LANGUAGES,
\* whatever the language commands and the callback data have been.
C23_LanguageSupported ==
    \A i \in 1..Len(users) : users[i].language \in AVAILABLE_LANGUAGES

(* ---------------- C24 ---------------- *)

\* C24: no step of premium_audio_command for a user it read as not premium
\* changes the users collection; for a user it read as premium, the update it
\* makes, when the store takes it, negates the stored premium_audio_mode, so
\* two commands restore the flag, handled one after the other or concurrently.
C24_ToggleNegates ==
    [][\A t \in Tasks :
          LET r == task[t]
              i == find_one(users, r.uid)
          IN  (r.update = "/premium_audio" /\ task'[t] # r /\ i # 0)
              => IF r.pc \in {"have_user", "reply"} /\ ~r.user.is_premium
                 THEN users' = users
                 ELSE (r.pc = "update_one" /\ task'[t].failed # "store")
                      => users'[i].premium_audio_mode = ~users[i].premium_audio_mode]_vars
====
